---- MODULE Spec2Model ----
(***************************************************************************)
(* Falcon full text search engine (falcon.py): the n-gram tokenizers, the  *)
(* Indexer with its in-memory merge buffer and the sqlite tables, and the  *)
(* Searcher with its phrase matcher.                                       *)
(*                                                                         *)
(* A Python str is a sequence of one-character strings; the ideographic   *)
(* space U+3000 is written "U+3000".  Python's None is the record          *)
(* [none |-> TRUE]; a returned list r is [none |-> FALSE, rows |-> r].     *)
(***************************************************************************)
EXTENDS Naturals, Integers, Sequences, FiniteSets, TLC

\* ------------------------------------------------------------------ bounds
\* Documents per store, characters per title / content / query word / query.
MaxDocs == 2
MaxQueryDocs == 1
MaxContentLen == 2
MaxWordLen == 3
\* Characters of the content of the document of SpecPhrase.
MaxPhraseLen == 4
\* Characters of title || content given to the tokenizer alone.
MaxTextLen == 5
\* Candidates maps and query token sequences given to the matcher alone.
MaxMatchDocs == 2
MaxMatchPosition == 2
MaxMatchTokens == 3
\* Input files of a run and lines of a file.
MaxFiles == 2
MaxLines == 2
\* _TOKEN_POSITION_LIMIT of falcon.py:15 is 5000000; the model scales it down
\* so that threshold flushes happen between the documents of a small ingest.
TOKEN_POSITION_LIMIT == 2

\* ------------------------------------------------------------- characters
\* Letters that are in no character class of the program.
Letters == {"a", "b"}
\* The members of the stopword class (falcon.py:31) that the model uses:
\* the letter i, the digit 0, and the whitespace characters of \s.
stopwords == {"i", "0", " ", "\t", "U+3000"}

\* Code points, the order Python compares characters by.
CodePoint(c) ==
    CASE c = "\t" -> 9
      [] c = " " -> 32
      [] c = "0" -> 48
      [] c = "D" -> 68
      [] c = "I" -> 73
      [] c = "O" -> 79
      [] c = "a" -> 97
      [] c = "b" -> 98
      [] c = "i" -> 105
      [] c = "U+3000" -> 12288

\* s[i:j] of Python for 0 <= i <= j: the slice ends at the end of s.
Slice(s, i, j) ==
    SubSeq(s, i + 1, IF j < Len(s) THEN j ELSE Len(s))

\* Mutant of NoStopword: only the first character of the token is looked at.
NoStopwordAtStart(token) ==
    token = <<>> \/ token[1] \notin stopwords

\* self.stopwords.search(token) == None
NoStopword(token) ==
    \A k \in 1..Len(token) : token[k] \notin stopwords

\* ---------------------------------------------------------------- tokenizer
\* The loop `for i in range(0, len(document))` of both tokenizers, from i on,
\* with the n-gram width n: the list of (i, token) pairs, as <<i, token>>.
RECURSIVE TokenizeLoop(_, _, _)
TokenizeLoop(n, document, i) ==
    IF i >= Len(document)
    THEN <<>>
    ELSE LET token == Slice(document, i, i + n)
         IN  (IF Len(token) = n /\ NoStopword(token)
              THEN << <<i, token>> >>
              ELSE <<>>) \o TokenizeLoop(n, document, i + 1)

BigramTokenizer_tokenize(title, content) ==
    TokenizeLoop(2, title \o content, 0)

TrigramTokenizer_tokenize(title, content) ==
    TokenizeLoop(3, title \o content, 0)

\* TokenizerFactory.create_tokenizer followed by a call of tokenize.
tokenize(tokenizer_type, title, content) ==
    IF tokenizer_type = "Bigram"
    THEN BigramTokenizer_tokenize(title, content)
    ELSE TrigramTokenizer_tokenize(title, content)

\* ------------------------------------------------------- InvertedIndexHash
\* The empty dict {} (a buffer, a table keyed by token, a posting_list).
EmptyDict == [k \in {} |-> 0]

\* InvertedIndexHash.__init__
InvertedIndexHash(token, document_id, position) ==
    [token |-> token,
     posting_list |-> (document_id :> <<position>>),
     positions_count |-> 1]

\* Mutant of add: the first position of a document is not counted.
addNotCounting(self, document_id, position) ==
    IF document_id \in DOMAIN self.posting_list
    THEN [self EXCEPT !.posting_list[document_id] = Append(@, position),
                      !.positions_count = @ + 1]
    ELSE [self EXCEPT !.posting_list = @ @@ (document_id :> <<position>>)]

\* Mutant of add: the position is put in front of the list.
addInFront(self, document_id, position) ==
    IF document_id \in DOMAIN self.posting_list
    THEN [self EXCEPT !.posting_list[document_id] = <<position>> \o @,
                      !.positions_count = @ + 1]
    ELSE [self EXCEPT !.posting_list = @ @@ (document_id :> <<position>>),
                      !.positions_count = @ + 1]

\* InvertedIndexHash.add
add(self, document_id, position) ==
    IF document_id \in DOMAIN self.posting_list
    THEN [self EXCEPT !.posting_list[document_id] = Append(@, position),
                      !.positions_count = @ + 1]
    ELSE [self EXCEPT !.posting_list = @ @@ (document_id :> <<position>>),
                      !.positions_count = @ + 1]

\* ------------------------------------------------------------ the database
\* bz2 compress / decompress of the content column: a blob that only
\* decompress opens.
compress(content) == [bz2 |-> content]
decompress(blob) == blob.bz2

\* Lower case of a character, the folding sqlite applies to identifiers.
Lower(c) ==
    CASE c = "O" -> "o"
      [] c = "I" -> "i"
      [] c = "D" -> "d"
      [] OTHER -> c

\* The query text puts every token between double quotes: "{0}".  sqlite
\* reads a double-quoted word as an identifier when it names a column of the
\* table, and as a string literal otherwise.  The only identifier of n-gram
\* length is oid, an alias of rowid, in any letter case.
NamesRowid(token) ==
    [k \in 1..Len(token) |-> Lower(token[k])] = <<"o", "i", "d">>

\* token IN("t1", "t2", ...) for the row with key `key`: a quoted word that
\* names rowid compares the key with the row's integer rowid, which no key
\* equals (a key holds no digit: digits are stopwords).
TokenIn(key, tokens) ==
    \E t \in tokens : ~NamesRowid(t) /\ key = t

\* SELECT posting_list FROM indices WHERE token IN(...), unpickled: the set
\* of stored InvertedIndexHash objects.
SelectPostingLists(table, tokens) ==
    {table[key] : key \in {k \in DOMAIN table : TokenIn(k, tokens)}}

\* Mutant of InsertOrReplace: the table is emptied before the insert.
DeleteAndInsert(table, buffer) ==
    buffer

\* Mutant of InsertOrReplace: INSERT OR IGNORE, a stored row is kept.
InsertOrIgnore(table, buffer) ==
    [key \in DOMAIN table \cup DOMAIN buffer |->
        IF key \in DOMAIN table THEN table[key] ELSE buffer[key]]

\* INSERT OR REPLACE INTO indices of every item of the buffer.
InsertOrReplace(table, buffer) ==
    [key \in DOMAIN table \cup DOMAIN buffer |->
        IF key \in DOMAIN buffer THEN buffer[key] ELSE table[key]]

\* ------------------------------------------------------------------ Indexer
\* The two loops `inverted_index_hash.add(document_id, i)` over a list of
\* (i, token) pairs whose tokens may or may not be in the buffer.
RECURSIVE AddTokens(_, _, _)
AddTokens(buffer, document_id, pairs) ==
    IF pairs = <<>>
    THEN buffer
    ELSE LET i == Head(pairs)[1]
             token == Head(pairs)[2]
             next == IF token \in DOMAIN buffer
                     THEN [buffer EXCEPT ![token] = add(@, document_id, i)]
                     ELSE buffer @@ (token :> InvertedIndexHash(token, document_id, i))
         IN  AddTokens(next, document_id, Tail(pairs))

\* Loads the rows into the buffer: self._inverted_index[unpickled.token] = unpickled
LoadRows(buffer, rows) ==
    [key \in DOMAIN buffer \cup {r.token : r \in rows} |->
        IF \E r \in rows : r.token = key
        THEN CHOOSE r \in rows : r.token = key
        ELSE buffer[key]]

\* Indexer._create_posting_list: the buffer it leaves.
_create_posting_list(buffer, table, tokenizer, document_id, title, content) ==
    LET tokens == tokenize(tokenizer, title, content)
        tokens_exist == SelectSeq(tokens, LAMBDA p : p[2] \in DOMAIN buffer)
        tokens_not_exist == SelectSeq(tokens, LAMBDA p : p[2] \notin DOMAIN buffer)
        merged == AddTokens(buffer, document_id, tokens_exist)
        rows == SelectPostingLists(table,
                    {tokens_not_exist[k][2] : k \in 1..Len(tokens_not_exist)})
        loaded == LoadRows(merged, rows)
    IN  AddTokens(loaded, document_id, tokens_not_exist)

\* Indexer._create_posting_list up to its SELECT: the buffer after the loop
\* over tokens_exist.
_create_posting_list_tokens_exist(buffer, tokenizer, document_id, title, content) ==
    LET tokens == tokenize(tokenizer, title, content)
        tokens_exist == SelectSeq(tokens, LAMBDA p : p[2] \in DOMAIN buffer)
    IN  AddTokens(buffer, document_id, tokens_exist)

\* sum([item.positions_count for token, item in self._inverted_index.items()])
RECURSIVE SumPositions(_, _)
SumPositions(buffer, keys) ==
    IF keys = {}
    THEN 0
    ELSE LET k == CHOOSE x \in keys : TRUE
         IN  buffer[k].positions_count + SumPositions(buffer, keys \ {k})

total_number_positions(buffer) ==
    SumPositions(buffer, DOMAIN buffer)

\* Mutant of Flushes: the threshold test off by one.
FlushesOffByOne(buffer, final) ==
    final \/ total_number_positions(buffer) > TOKEN_POSITION_LIMIT + 1

\* Indexer._flush_buffer: whether it writes, the table and the buffer it leaves.
Flushes(buffer, final) ==
    final \/ total_number_positions(buffer) > TOKEN_POSITION_LIMIT

_flush_buffer_table(buffer, table, final) ==
    IF Flushes(buffer, final) THEN InsertOrReplace(table, buffer) ELSE table

_flush_buffer_buffer(buffer, final) ==
    IF Flushes(buffer, final) THEN EmptyDict ELSE buffer

\* Indexer._store_document: the documents table after the INSERT; the new
\* row's id (lastrowid) is the length of the table.
_store_document(table, title, content) ==
    Append(table, [title |-> title, content |-> compress(content)])

\* ----------------------------------------------------------------- Searcher
None == [none |-> TRUE]
\* A call that ended by raising the exception.
Raised(exception) == [none |-> FALSE, raised |-> exception]
Some(list) == [none |-> FALSE, rows |-> list]

\* The characters words.strip(' 　') removes, and the ones \s matches.
StripChars == {" ", "U+3000"}
ReWhitespace == {" ", "\t", "U+3000"}

RECURSIVE LStrip(_)
LStrip(s) ==
    IF s # <<>> /\ Head(s) \in StripChars THEN LStrip(Tail(s)) ELSE s

RECURSIVE RStrip(_)
RStrip(s) ==
    IF s # <<>> /\ s[Len(s)] \in StripChars
    THEN RStrip(SubSeq(s, 1, Len(s) - 1))
    ELSE s

strip(s) == RStrip(LStrip(s))

\* re.split('\s+', s) from character k on, `word` being the piece read so
\* far: every maximal run of whitespace ends a piece, the empty piece before
\* a leading run and after a trailing run included.
RECURSIVE SplitLoop(_, _, _)
SplitLoop(s, k, word) ==
    IF k > Len(s)
    THEN <<word>>
    ELSE IF s[k] \in ReWhitespace
         THEN IF k > 1 /\ s[k - 1] \in ReWhitespace
              THEN SplitLoop(s, k + 1, word)
              ELSE <<word>> \o SplitLoop(s, k + 1, <<>>)
         ELSE SplitLoop(s, k + 1, Append(word, s[k]))

split(s) == SplitLoop(s, 1, <<>>)

\* Python's order of str, by code point.
RECURSIVE StrLess(_, _)
StrLess(x, y) ==
    IF y = <<>> THEN FALSE
    ELSE IF x = <<>> THEN TRUE
    ELSE IF Head(x) = Head(y) THEN StrLess(Tail(x), Tail(y))
    ELSE CodePoint(Head(x)) < CodePoint(Head(y))

\* Python's order of (position, token) tuples.
PairLess(x, y) ==
    x[1] < y[1] \/ (x[1] = y[1] /\ StrLess(x[2], y[2]))

RECURSIVE sorted(_)
sorted(positions) ==
    IF Len(positions) <= 1
    THEN positions
    ELSE LET x == Head(positions)
             rest == sorted(Tail(positions))
         IN  SelectSeq(rest, LAMBDA y : PairLess(y, x)) \o <<x>>
                 \o SelectSeq(rest, LAMBDA y : ~PairLess(y, x))

\* A set of tokens as the list in ascending order (the order of the rows of
\* the primary key), and a set of ids in ascending order.
RECURSIVE TokensInOrder(_)
TokensInOrder(set) ==
    IF set = {}
    THEN <<>>
    ELSE LET least == CHOOSE x \in set : \A y \in set \ {x} : StrLess(x, y)
         IN  <<least>> \o TokensInOrder(set \ {least})

RECURSIVE IdsInOrder(_)
IdsInOrder(set) ==
    IF set = {}
    THEN <<>>
    ELSE LET least == CHOOSE x \in set : \A y \in set : x <= y
         IN  <<least>> \o IdsInOrder(set \ {least})

\* documents[document_id] of Searcher.search: (position, token) for every
\* position of document_id in every fetched posting list.
RECURSIVE PositionsOf(_, _, _)
PositionsOf(table, keys, document_id) ==
    IF keys = <<>>
    THEN <<>>
    ELSE LET unpickled == table[Head(keys)]
             pl_item == IF document_id \in DOMAIN unpickled.posting_list
                        THEN unpickled.posting_list[document_id]
                        ELSE <<>>
         IN  [k \in 1..Len(pl_item) |-> <<pl_item[k], unpickled.token>>]
                 \o PositionsOf(table, Tail(keys), document_id)

\* The inner loop of _get_matched_document_ids over sorted(positions), from
\* entry k on: how many times it appends the document id.  The `continue`
\* after an append leaves sequence and prev_position as they are.
RECURSIVE ScanPositions(_, _, _, _, _)
ScanPositions(entries, k, sequence, prev_position, tokens) ==
    IF k > Len(entries)
    THEN 0
    ELSE LET position == entries[k][1]
             token == entries[k][2]
             number_of_tokens == Len(tokens)
             seq == IF position - prev_position # 1 THEN 1 ELSE sequence
             compares == seq = 1 \/ (seq <= number_of_tokens
                                       /\ position - prev_position = 1)
             equal == compares /\ token = tokens[seq][2]
         IN  IF equal /\ number_of_tokens = seq
             THEN 1 + ScanPositions(entries, k + 1, seq, prev_position, tokens)
             ELSE ScanPositions(entries, k + 1,
                                IF equal THEN seq + 1 ELSE seq, position, tokens)

\* Mutant of MatchesOf: the documents that the earlier words left out are
\* not skipped.
MatchesOfAnyDocument(documents, tokens, prev_matched_document_ids, document_id) ==
    LET positions == documents[document_id]
        distinct == {positions[k][2] : k \in 1..Len(positions)}
    IN  IF Len(tokens) # Cardinality(distinct)
        THEN 0
        ELSE ScanPositions(sorted(positions), 1, 1, -1, tokens)

\* The appends of one document: none when it is skipped.
MatchesOf(documents, tokens, prev_matched_document_ids, document_id) ==
    LET positions == documents[document_id]
        distinct == {positions[k][2] : k \in 1..Len(positions)}
    IN  IF ~prev_matched_document_ids.none
           /\ \A k \in 1..Len(prev_matched_document_ids.rows) :
                  prev_matched_document_ids.rows[k] # document_id
        THEN 0
        ELSE IF Len(tokens) # Cardinality(distinct)
        THEN 0
        ELSE ScanPositions(sorted(positions), 1, 1, -1, tokens)

RECURSIVE Repeat(_, _)
Repeat(x, n) == IF n = 0 THEN <<>> ELSE <<x>> \o Repeat(x, n - 1)

RECURSIVE MatchLoop(_, _, _, _)
MatchLoop(documents, tokens, prev_matched_document_ids, ids) ==
    IF ids = <<>>
    THEN <<>>
    ELSE Repeat(Head(ids),
                MatchesOf(documents, tokens, prev_matched_document_ids, Head(ids)))
             \o MatchLoop(documents, tokens, prev_matched_document_ids, Tail(ids))

\* Searcher._get_matched_document_ids: the list matched_document_ids, the
\* documents taken in ascending id order.
_get_matched_document_ids(documents, tokens, prev_matched_document_ids) ==
    MatchLoop(documents, tokens, prev_matched_document_ids,
              IdsInOrder(DOMAIN documents))

\* Searcher._get_documents with return_content = False: the [id, title] rows
\* of the ids that have a row.
_get_documents(doc_table, matched_document_ids) ==
    LET ids == {matched_document_ids[k] : k \in 1..Len(matched_document_ids)}
        found == IdsInOrder(ids \cap (1..Len(doc_table)))
    IN  [k \in 1..Len(found) |-> <<found[k], doc_table[found[k]].title>>]

\* The dict `documents` that search builds from the fetched rows.
Candidates(idx_table, tokens) ==
    LET wanted == {tokens[k][2] : k \in 1..Len(tokens)}
        keys == TokensInOrder({k \in DOMAIN idx_table : TokenIn(k, wanted)})
        ids == UNION {DOMAIN idx_table[keys[k]].posting_list : k \in 1..Len(keys)}
    IN  [document_id \in ids |-> PositionsOf(idx_table, keys, document_id)]

\* Mutant of SearchLoop: a word without tokens is passed over, as if it
\* matched every document.
RECURSIVE SearchLoopPassingOver(_, _, _, _, _)
SearchLoopPassingOver(tokenizer, idx_table, word_list, k, matched_document_ids) ==
    IF k > Len(word_list)
    THEN matched_document_ids
    ELSE LET tokens == tokenize(tokenizer, word_list[k], <<>>)
             rows == SelectPostingLists(idx_table,
                         {tokens[j][2] : j \in 1..Len(tokens)})
         IN  IF tokens = <<>>
             THEN SearchLoopPassingOver(tokenizer, idx_table, word_list, k + 1,
                      matched_document_ids)
             ELSE IF rows = {}
             THEN None
             ELSE SearchLoopPassingOver(tokenizer, idx_table, word_list, k + 1,
                      Some(_get_matched_document_ids(
                               Candidates(idx_table, tokens), tokens,
                               matched_document_ids)))

\* The loop `for word in split(...)` of Searcher.search from word k on:
\* None when a word fetches no row, else the last matched_document_ids.
RECURSIVE SearchLoop(_, _, _, _, _)
SearchLoop(tokenizer, idx_table, word_list, k, matched_document_ids) ==
    IF k > Len(word_list)
    THEN matched_document_ids
    ELSE LET tokens == tokenize(tokenizer, word_list[k], <<>>)
             rows == SelectPostingLists(idx_table,
                         {tokens[j][2] : j \in 1..Len(tokens)})
         IN  IF rows = {}
             THEN None
             ELSE SearchLoop(tokenizer, idx_table, word_list, k + 1,
                      Some(_get_matched_document_ids(
                               Candidates(idx_table, tokens), tokens,
                               matched_document_ids)))

\* Searcher.search
search(tokenizer, doc_table, idx_table, words) ==
    LET matched_document_ids ==
            SearchLoop(tokenizer, idx_table, split(strip(words)), 1, None)
    IN  IF matched_document_ids.none
        THEN None
        ELSE Some(_get_documents(doc_table, matched_document_ids.rows))

\* ------------------------------------------------------------ state machine
VARIABLES
    tokenizer_type,    \* 'Bigram' or 'Trigram', the -z argument of the run
    connection,        \* "open" while an Indexer holds its connection
    _inverted_index,   \* Indexer._inverted_index, the merge buffer
    documents,         \* table documents as the Indexer's connection sees it
    indices,           \* table indices as the Indexer's connection sees it
    file_documents,    \* table documents as committed to the database file
    file_indices,      \* table indices as committed to the database file
    last_call,         \* the method that returned last
    args,              \* its arguments
    result,            \* what it returned (None for the methods of Indexer)
    _memory_mode,      \* Indexer._memory_mode: the connection is to ':memory:'
    file_tables,       \* the tables that exist in the database file
    entry,             \* what a call of _flush_buffer, or a call that raised,
                       \* found when it was entered (None after other calls)
    files,             \* IndexManager.run: the input files not yet read to
                       \* the end, each the list of its unread lines
    copying,           \* flush_memory_to_file: the tables still to copy
    searching          \* a search between its two reads: its word and the
                       \* ids it matched (None when no search is under way)

vars == <<tokenizer_type, connection, _inverted_index, documents, indices,
          file_documents, file_indices, last_call, args, result,
          _memory_mode, file_tables, entry, files, copying, searching>>

\* The variables of the command-line run and of the calls in steps.
stepVars == <<files, copying, searching>>

BothTables == {"indices", "documents"}

\* What a call finds when it is entered.
Entry ==
    [_inverted_index |-> _inverted_index, indices |-> indices,
     documents |-> documents, last_call |-> last_call, args |-> args]

Strings(chars, max_len) ==
    UNION {[1..n -> chars] : n \in 0..max_len}

\* Indexer.__init__ on a new database file: both tables created and empty.
Init ==
    /\ tokenizer_type \in {"Bigram", "Trigram"}
    /\ connection = "open"
    /\ _inverted_index = EmptyDict
    /\ documents = <<>>
    /\ indices = EmptyDict
    /\ file_documents = <<>>
    /\ file_indices = EmptyDict
    /\ last_call = "__init__"
    /\ args = <<>>
    /\ result = None
    /\ _memory_mode = FALSE
    /\ file_tables = BothTables
    /\ entry = None
    /\ files = <<>>
    /\ copying = <<>>
    /\ searching = None

\* Indexer.__init__ with memory_mode = True and the name of a file that does
\* not exist yet: the two tables are created in ':memory:', the file is not
\* touched.
InitMemory ==
    /\ tokenizer_type \in {"Bigram", "Trigram"}
    /\ connection = "open"
    /\ _inverted_index = EmptyDict
    /\ documents = <<>>
    /\ indices = EmptyDict
    /\ file_documents = <<>>
    /\ file_indices = EmptyDict
    /\ last_call = "__init__"
    /\ args = <<>>
    /\ result = None
    /\ _memory_mode = TRUE
    /\ file_tables = {}
    /\ entry = None
    /\ files = <<>>
    /\ copying = <<>>
    /\ searching = None

\* Indexer.__init__ on the file a closed Indexer left.
NewIndexer ==
    /\ connection = "closed"
    /\ ~_memory_mode
    /\ connection' = "open"
    /\ _inverted_index' = EmptyDict
    /\ last_call' = "__init__"
    /\ args' = <<>>
    /\ result' = None
    /\ entry' = None
    /\ UNCHANGED <<tokenizer_type, documents, indices, file_documents, file_indices,
                   _memory_mode, file_tables, stepVars>>

\* Indexer.add_index(title, content) with the default document_id = 0, as
\* every caller (falcon.py:276, 385, 392) calls it.
add_index(title, content) ==
    /\ connection = "open"
    /\ LET stored == _store_document(documents, title, content)
           document_id == Len(stored)
           buffer == _create_posting_list(_inverted_index, indices,
                         tokenizer_type, document_id, title, content)
       IN  /\ documents' = stored
           /\ indices' = _flush_buffer_table(buffer, indices, FALSE)
           /\ _inverted_index' = _flush_buffer_buffer(buffer, FALSE)
    /\ last_call' = "add_index"
    /\ args' = <<title, content>>
    /\ result' = None
    /\ entry' = None
    /\ UNCHANGED <<tokenizer_type, connection, file_documents, file_indices,
                   _memory_mode, file_tables, stepVars>>

\* Indexer.close_database_connection: final flush, commit, close.  The
\* commit reaches the database file when the connection is to the file.
close_database_connection ==
    /\ connection = "open"
    /\ LET flushed == _flush_buffer_table(_inverted_index, indices, TRUE)
       IN  /\ indices' = flushed
           /\ file_indices' = IF _memory_mode THEN file_indices ELSE flushed
    /\ _inverted_index' = _flush_buffer_buffer(_inverted_index, TRUE)
    /\ file_documents' = IF _memory_mode THEN file_documents ELSE documents
    /\ connection' = "closed"
    /\ last_call' = "close_database_connection"
    /\ args' = <<>>
    /\ result' = None
    /\ entry' = None
    /\ UNCHANGED <<tokenizer_type, documents, _memory_mode, file_tables, stepVars>>

\* Searcher.search(words) in the steps that each open a connection of their
\* own.  First the call itself: words.strip(...) and split(...).
search_start(words) ==
    /\ searching = None
    /\ last_call # "search"
    /\ searching' = [words |-> words, word_list |-> split(strip(words)),
                     k |-> 1, matched_document_ids |-> None]
    /\ UNCHANGED <<tokenizer_type, connection, _inverted_index, documents, indices,
                   file_documents, file_indices, last_call, args, result,
                   _memory_mode, file_tables, entry, files, copying>>

\* One turn of the loop over the words: connect, SELECT the posting lists of
\* the word from the file as it is committed now, and match.  The SELECT
\* raises when the file has no table indices; search returns None when no
\* row is fetched.
search_word ==
    /\ searching # None
    /\ searching.k <= Len(searching.word_list)
    /\ LET tokens == tokenize(tokenizer_type, searching.word_list[searching.k], <<>>)
           rows == SelectPostingLists(file_indices,
                       {tokens[j][2] : j \in 1..Len(tokens)})
       IN  IF "indices" \notin file_tables \/ rows = {}
           THEN /\ result' = IF "indices" \notin file_tables
                             THEN Raised("no such table: indices")
                             ELSE None
                /\ last_call' = "search"
                /\ args' = searching.words
                /\ entry' = None
                /\ searching' = None
           ELSE /\ searching' =
                       [searching EXCEPT
                           !.k = @ + 1,
                           !.matched_document_ids =
                               Some(_get_matched_document_ids(
                                        Candidates(file_indices, tokens), tokens, @))]
                /\ UNCHANGED <<last_call, args, result, entry>>
    /\ UNCHANGED <<tokenizer_type, connection, _inverted_index, documents, indices,
                   file_documents, file_indices, _memory_mode, file_tables,
                   files, copying>>

\* After the loop: Searcher._get_documents, which returns [] without a
\* connection when no id matched, and else connects and SELECTs the rows of
\* the matched ids from the file as it is committed now.
search_get_documents ==
    /\ searching # None
    /\ searching.k > Len(searching.word_list)
    /\ LET matched_document_ids == searching.matched_document_ids.rows
       IN  result' = IF matched_document_ids = <<>>
                     THEN Some(<<>>)
                     ELSE IF "documents" \notin file_tables
                     THEN Raised("no such table: documents")
                     ELSE Some(_get_documents(file_documents, matched_document_ids))
    /\ last_call' = "search"
    /\ args' = searching.words
    /\ entry' = None
    /\ searching' = None
    /\ UNCHANGED <<tokenizer_type, connection, _inverted_index, documents, indices,
                   file_documents, file_indices, _memory_mode, file_tables,
                   files, copying>>

\* The return of IndexManager.run, the end of the process, while the
\* Indexer that run created is not closed (falcon.py:383-385 never close
\* it): the connection goes without a commit, so what the Indexer inserted
\* and what its buffer held is not in the database file.  The arguments of
\* the run are those of its add_index.
run_end ==
    /\ connection = "open"
    /\ last_call = "add_index"
    /\ connection' = "closed"
    /\ documents' = file_documents
    /\ indices' = file_indices
    /\ _inverted_index' = EmptyDict
    /\ last_call' = "run"
    /\ result' = None
    /\ entry' = None
    /\ UNCHANGED <<tokenizer_type, args, file_documents, file_indices,
                   _memory_mode, file_tables, stepVars>>

\* Indexer.flush_memory_to_file up to its loop: commit of the memory
\* database, attach of the file, and the names of the tables in the order
\* of sqlite_master, which is the order of their creation in __init__.
flush_memory_to_file ==
    /\ connection = "open"
    /\ _memory_mode
    /\ copying = <<>>
    /\ copying' = <<"indices", "documents">>
    /\ last_call' = "flush_memory_to_file"
    /\ args' = <<>>
    /\ result' = None
    /\ entry' = None
    /\ UNCHANGED <<tokenizer_type, connection, _inverted_index, documents, indices,
                   file_documents, file_indices, _memory_mode, file_tables,
                   files, searching>>

\* One turn of the loop of flush_memory_to_file: create table
\* __extdb.<name> as select * from <name>.  No transaction is open, so each
\* statement is committed to the file when it ends; it raises when the file
\* has the table already.  The buffer is not written by any statement of
\* flush_memory_to_file.
create_table_as_select ==
    /\ copying # <<>>
    /\ LET table_name == Head(copying)
       IN  IF table_name \in file_tables
           THEN /\ result' = Raised("table " \o table_name \o " already exists")
                /\ copying' = <<>>
                /\ UNCHANGED <<file_tables, file_documents, file_indices>>
           ELSE /\ result' = None
                /\ copying' = Tail(copying)
                /\ file_tables' = file_tables \cup {table_name}
                /\ file_indices' = IF table_name = "indices"
                                   THEN indices ELSE file_indices
                /\ file_documents' = IF table_name = "documents"
                                     THEN documents ELSE file_documents
    /\ last_call' = "flush_memory_to_file"
    /\ args' = <<>>
    /\ entry' = None
    /\ UNCHANGED <<tokenizer_type, connection, _inverted_index, documents, indices,
                   _memory_mode, files, searching>>

\* split('\s+', line, 1) of IndexManager.run: the line up to its first run
\* of whitespace and the line after that run, or the line alone when it has
\* no whitespace.
split_once(line) ==
    LET whitespace == {i \in 1..Len(line) : line[i] \in ReWhitespace}
    IN  IF whitespace = {}
        THEN <<line>>
        ELSE LET first == CHOOSE i \in whitespace : \A j \in whitespace : i <= j
                 rest == {j \in (first + 1)..Len(line) : line[j] \notin ReWhitespace}
                 next == IF rest = {}
                         THEN Len(line) + 1
                         ELSE CHOOSE j \in rest : \A k \in rest : j <= k
             IN  <<SubSeq(line, 1, first - 1), SubSeq(line, next, Len(line))>>

\* IndexManager.run with input files (falcon.py:386-387): the Indexer is
\* created once, before the loop over the files.
run_files(input) ==
    /\ connection = "open"
    /\ last_call = "__init__"
    /\ files = <<>>
    /\ files' = input
    /\ last_call' = "run_files"
    /\ args' = <<>>
    /\ result' = None
    /\ entry' = None
    /\ UNCHANGED <<tokenizer_type, connection, _inverted_index, documents, indices,
                   file_documents, file_indices, _memory_mode, file_tables,
                   copying, searching>>

\* The run goes on: no call is pending and no exception has ended it.
Running ==
    /\ files # <<>>
    /\ copying = <<>>
    /\ last_call \notin {"readline", "end_of_file"}
    /\ "raised" \notin DOMAIN result

\* `for line in f` with a line left, and l = split('\s+', line, 1): the
\* arguments l[0], l[1] of the add_index that follows; l[1] raises
\* IndexError when the line has no whitespace.
readline ==
    /\ Running
    /\ Head(files) # <<>>
    /\ LET l == split_once(Head(Head(files)))
       IN  IF Len(l) < 2
           THEN /\ last_call' = "run"
                /\ args' = <<>>
                /\ result' = Raised("IndexError")
           ELSE /\ last_call' = "readline"
                /\ args' = l
                /\ result' = None
    /\ files' = [files EXCEPT ![1] = Tail(@)]
    /\ entry' = None
    /\ UNCHANGED <<tokenizer_type, connection, _inverted_index, documents, indices,
                   file_documents, file_indices, _memory_mode, file_tables,
                   copying, searching>>

\* `for line in f` with no line left: the statements after the inner loop
\* follow, inside the loop over the files (falcon.py:393-396).
end_of_file ==
    /\ Running
    /\ Head(files) = <<>>
    /\ files' = Tail(files)
    /\ last_call' = "end_of_file"
    /\ args' = <<>>
    /\ result' = None
    /\ entry' = None
    /\ UNCHANGED <<tokenizer_type, connection, _inverted_index, documents, indices,
                   file_documents, file_indices, _memory_mode, file_tables,
                   copying, searching>>

\* Indexer.add_index on an Indexer whose connection is closed:
\* self._connection.cursor() of _store_document raises
\* sqlite3.ProgrammingError, nothing is changed.
add_index_closed(title, content) ==
    /\ connection = "closed"
    /\ last_call' = "add_index"
    /\ args' = <<title, content>>
    /\ result' = Raised("sqlite3.ProgrammingError")
    /\ entry' = Entry
    /\ UNCHANGED <<tokenizer_type, connection, _inverted_index, documents, indices,
                   file_documents, file_indices, _memory_mode, file_tables, stepVars>>

\* The first two statements of Indexer.add_index: the document is stored and
\* its posting lists are merged into the buffer; add_index is then about to
\* call _flush_buffer().
add_index_until_flush(title, content) ==
    /\ connection = "open"
    /\ last_call # "_create_posting_list"
    /\ LET stored == _store_document(documents, title, content)
       IN  /\ documents' = stored
           /\ _inverted_index' = _create_posting_list(_inverted_index, indices,
                                     tokenizer_type, Len(stored), title, content)
    /\ last_call' = "_create_posting_list"
    /\ args' = <<title, content>>
    /\ result' = None
    /\ entry' = None
    /\ UNCHANGED <<tokenizer_type, connection, indices, file_documents, file_indices,
                   _memory_mode, file_tables, stepVars>>

\* Indexer._flush_buffer(final): the last statement of add_index (final is
\* False there), or a call of its own.
_flush_buffer(final) ==
    /\ connection = "open"
    /\ last_call = "_create_posting_list" => ~final
    /\ entry' = Entry
    /\ indices' = _flush_buffer_table(_inverted_index, indices, final)
    /\ _inverted_index' = _flush_buffer_buffer(_inverted_index, final)
    /\ last_call' = "_flush_buffer"
    /\ args' = <<final>>
    /\ result' = None
    /\ UNCHANGED <<tokenizer_type, connection, documents, file_documents,
                   file_indices, _memory_mode, file_tables, stepVars>>

\* The statements that reach the backing store, by the first words of their SQL.
StoreOperations == {"INSERT INTO documents", "SELECT posting_list", "INSERT OR REPLACE"}

\* Indexer.add_index(title, content) when the statement `failing` of the
\* store raises sqlite3.Error: what was done before it stays done.  The
\* INSERT of _store_document is the first statement; the SELECT of
\* _create_posting_list comes after the row is inserted and after the loop
\* over tokens_exist.
add_index_raising(title, content, failing) ==
    /\ connection = "open"
    /\ failing \in {"INSERT INTO documents", "SELECT posting_list"}
    /\ IF failing = "INSERT INTO documents"
       THEN UNCHANGED <<documents, _inverted_index>>
       ELSE LET stored == _store_document(documents, title, content)
            IN  /\ documents' = stored
                /\ _inverted_index' = _create_posting_list_tokens_exist(
                       _inverted_index, tokenizer_type, Len(stored), title, content)
    /\ entry' = Entry
    /\ last_call' = "add_index"
    /\ args' = <<title, content>>
    /\ result' = Raised("sqlite3.Error")
    /\ UNCHANGED <<tokenizer_type, connection, indices, file_documents, file_indices,
                   _memory_mode, file_tables, stepVars>>

\* Indexer._flush_buffer(final) when the executemany of the INSERT OR REPLACE
\* raises: the rows written before the failing one stay written (any part of
\* the buffer, the order of the dict is not modelled), and the statements
\* that empty the buffer are not reached.
_flush_buffer_raising(final) ==
    /\ connection = "open"
    /\ Flushes(_inverted_index, final)
    /\ \E written \in SUBSET (DOMAIN _inverted_index) :
           /\ written # DOMAIN _inverted_index
           /\ indices' = InsertOrReplace(indices,
                             [token \in written |-> _inverted_index[token]])
    /\ entry' = Entry
    /\ last_call' = "_flush_buffer"
    /\ args' = <<final>>
    /\ result' = Raised("sqlite3.Error")
    /\ UNCHANGED <<tokenizer_type, connection, _inverted_index, documents,
                   file_documents, file_indices, _memory_mode, file_tables, stepVars>>

\* Searcher.search(words) by a Searcher opened after the Indexer's close: its
\* own connection reads the committed tables.  What it returns depends on
\* the committed tables and on words only, so a search that follows a search
\* reaches no state that a first search does not reach: the model takes the
\* searches from the states that the Indexer leaves.
Search(words) ==
    /\ connection = "closed"
    /\ last_call # "search"
    /\ last_call' = "search"
    /\ args' = words
    /\ result' = search(tokenizer_type, file_documents, file_indices, words)
    /\ entry' = None
    /\ UNCHANGED <<tokenizer_type, connection, _inverted_index, documents,
                   indices, file_documents, file_indices,
                   _memory_mode, file_tables, stepVars>>

\* --------------------------------------------- Spec: ingest, close, reopen
\* Documents: the title a and a content of letters.
Titles == {<<"a">>}
Contents == Strings(Letters, MaxContentLen)

\* Query words long enough for a bigram.
Words == {w \in Strings(Letters, MaxWordLen) : Len(w) >= 2}

AddIndex ==
    /\ Len(documents) < MaxDocs
    /\ \E title \in Titles, content \in Contents : add_index(title, content)

SearchWord ==
    \E words \in Words : Search(words)

Next ==
    \/ NewIndexer
    \/ AddIndex
    \/ close_database_connection
    \/ SearchWord

Spec == Init /\ [][Next]_vars

\* ------------------------------------------ SpecQuery: queries of many forms
\* Words that tokenize to nothing under both tokenizers: too short, or a
\* stopword in every n-gram.
EmptyWords == {<<"a">>, <<"i", "i">>, <<"a", "i", "b">>}
Separators == {<<"\t">>, <<" ", "U+3000">>}
Pads == {<<" ">>, <<"\t">>, <<"U+3000">>}

\* One word, or two words with whitespace between them, of at most
\* MaxQueryLen characters.
MaxQueryLen == MaxWordLen + 3

PlainQueries ==
    Words \cup {q \in {w1 \o <<" ">> \o w2 : w1 \in Words, w2 \in Words} :
                    Len(q) <= MaxQueryLen}
          \cup {<<"a", "b">> \o sep \o w : w \in Words, sep \in Separators}
          \cup EmptyWords
          \cup {e \o <<" ">> \o <<"a", "b">> : e \in EmptyWords}
          \cup {<<"a", "b">> \o <<" ">> \o e : e \in EmptyWords}

\* One word with whitespace before or after it, and no word at all.
PaddedQueries ==
    {pad \o <<"a", "b">> : pad \in Pads}
        \cup {<<"a", "b">> \o pad : pad \in Pads}
        \cup {<<>>} \cup Pads

AddQueryDocument ==
    /\ Len(documents) < MaxQueryDocs
    /\ \E title \in Titles, content \in Contents : add_index(title, content)

SearchPlain ==
    \E words \in PlainQueries : Search(words)

SearchPadded ==
    \E words \in PaddedQueries : Search(words)

NextQuery ==
    \/ NewIndexer
    \/ AddQueryDocument
    \/ close_database_connection
    \/ SearchPlain
    \/ SearchPadded

SpecQuery == Init /\ [][NextQuery]_vars

\* ------------------------------- SpecRowid: documents of the letters O, I, D
RowidTitles == {<<"O">>}
RowidContents == Strings({"I", "D"}, MaxContentLen)
RowidWords == {<<"O", "I">>, <<"O", "I", "D">>}

AddRowidDocument ==
    /\ Len(documents) < MaxDocs
    /\ \E title \in RowidTitles, content \in RowidContents :
           add_index(title, content)

SearchRowidWord ==
    \E words \in RowidWords : Search(words)

NextRowid ==
    \/ NewIndexer
    \/ AddRowidDocument
    \/ close_database_connection
    \/ SearchRowidWord

SpecRowid == Init /\ [][NextRowid]_vars

\* ------------------------- SpecPhrase: one document, one-word queries
PhraseChars == {"a", "b", "i"}
PhraseTitles == Strings(PhraseChars, 1) \ {<<>>}
PhraseContents == Strings(PhraseChars, MaxPhraseLen)
PhraseWords == Strings(PhraseChars, MaxPhraseLen + 1) \ {<<>>}

AddPhraseDocument ==
    /\ Len(documents) = 0
    /\ \E title \in PhraseTitles, content \in PhraseContents :
           add_index(title, content)

SearchPhraseWord ==
    \E words \in PhraseWords : Search(words)

NextPhrase ==
    \/ AddPhraseDocument
    \/ close_database_connection
    \/ SearchPhraseWord

SpecPhrase == Init /\ [][NextPhrase]_vars

\* ------------------------------------ SpecTokenize: the tokenizers alone
TextChars == {"a", "b", "i", " "}

\* tokenize(title, content) of the tokenizer that the Indexer and the
\* Searcher hold.
Tokenize(title, content) ==
    /\ last_call' = "tokenize"
    /\ args' = <<title, content>>
    /\ result' = Some(tokenize(tokenizer_type, title, content))
    /\ entry' = None
    /\ UNCHANGED <<tokenizer_type, connection, _inverted_index, documents,
                   indices, file_documents, file_indices,
                   _memory_mode, file_tables, stepVars>>

\* The tokenizers keep no state, so a call that follows another call
\* reaches nothing that the first call does not reach; only the first call
\* is explored.
TokenizeText ==
    /\ last_call # "tokenize"
    /\ \E title \in Strings(TextChars, MaxTextLen) :
           \E content \in Strings(TextChars, MaxTextLen - Len(title)) :
               Tokenize(title, content)

NextTokenize == TokenizeText

SpecTokenize == Init /\ [][NextTokenize]_vars

\* --------------------------- SpecMatch: _get_matched_document_ids alone
MatchGrams == {<<"a", "b">>, <<"b", "a">>}

\* A set of (position, token) pairs as a list, in the order of sorted().
RECURSIVE PairsInOrder(_)
PairsInOrder(set) ==
    IF set = {}
    THEN <<>>
    ELSE LET least == CHOOSE x \in set : \A y \in set \ {x} : PairLess(x, y)
         IN  <<least>> \o PairsInOrder(set \ {least})

MatchPairs == (0..MaxMatchPosition) \X MatchGrams

\* Query token sequences as the tokenizer numbers them: (k, n-gram).
TokenLists ==
    UNION {{[k \in 1..n |-> <<k - 1, grams[k]>>] : grams \in [1..n -> MatchGrams]} :
               n \in 1..MaxMatchTokens}

\* _get_matched_document_ids(documents, tokens) called on its own, as
\* SearcherTest calls it.
MatchUnit(candidates, tokens) ==
    /\ last_call' = "_get_matched_document_ids"
    /\ args' = <<candidates, tokens>>
    /\ result' = Some(_get_matched_document_ids(candidates, tokens, None))
    /\ entry' = None
    /\ UNCHANGED <<tokenizer_type, connection, _inverted_index, documents,
                   indices, file_documents, file_indices,
                   _memory_mode, file_tables, stepVars>>

\* The matcher keeps no state: only the first call is explored.
MatchCandidates ==
    /\ last_call # "_get_matched_document_ids"
    /\ \E n \in 1..MaxMatchDocs :
           \E sets \in [1..n -> SUBSET MatchPairs] :
               \E tokens \in TokenLists :
                   MatchUnit([d \in 1..n |-> PairsInOrder(sets[d])], tokens)

NextMatch == MatchCandidates

SpecMatch == Init /\ [][NextMatch]_vars

\* ------------------------------ SpecFlush: _flush_buffer call by call
AddUntilFlush ==
    /\ Len(documents) < MaxDocs
    /\ \E title \in Titles, content \in Contents :
           add_index_until_flush(title, content)

FlushBuffer ==
    \E final \in BOOLEAN : _flush_buffer(final)

NextFlush == AddUntilFlush \/ FlushBuffer

SpecFlush == Init /\ [][NextFlush]_vars

\* ------------------------------------ SpecFault: the store raises errors
AddFaultDocument ==
    /\ Len(documents) < MaxDocs
    /\ \E title \in Titles, content \in Contents : add_index(title, content)

AddRaising ==
    /\ Len(documents) < MaxDocs
    /\ \E title \in Titles, content \in Contents :
           \E failing \in StoreOperations : add_index_raising(title, content, failing)

FlushRaising ==
    \E final \in BOOLEAN : _flush_buffer_raising(final)

NextFault == AddFaultDocument \/ AddRaising \/ FlushRaising

SpecFault == Init /\ [][NextFault]_vars

\* ------------------- SpecRun: the command line with -d, -t and -c, run by run
\* run adds the one document of its arguments to the Indexer it has created.
AddRunDocument ==
    /\ last_call = "__init__"
    /\ \E title \in PhraseTitles, content \in PhraseContents :
           add_index(title, content)

SearchRunWord ==
    \E words \in Words : Search(words)

NextRun == AddRunDocument \/ run_end \/ NewIndexer \/ SearchRunWord

SpecRun == Init /\ [][NextRun]_vars

\* -------------------------- SpecMemory: an Indexer in memory mode (-M)
AddMemoryDocument ==
    /\ Len(documents) < MaxDocs
    /\ copying = <<>>
    /\ \E title \in Titles, content \in Contents : add_index(title, content)

NextMemory == AddMemoryDocument \/ flush_memory_to_file \/ create_table_as_select

SpecMemory == InitMemory /\ [][NextMemory]_vars

\* ----------------------- SpecIngest: the command line with input files
\* Lines `title content`, and a line without whitespace.
InputLines ==
    {<<"a", " ">> \o content : content \in {<<"a">>, <<"b", "a">>}} \cup {<<"a", "b">>}

InputFile == UNION {[1..n -> InputLines] : n \in 1..MaxLines}

InputFiles == UNION {[1..n -> InputFile] : n \in 1..MaxFiles}

RunFiles ==
    \E input \in InputFiles : run_files(input)

AddLine ==
    /\ last_call = "readline"
    /\ add_index(args[1], args[2])

AddLineClosed ==
    /\ last_call = "readline"
    /\ add_index_closed(args[1], args[2])

CloseAfterFile ==
    /\ last_call = "end_of_file"
    /\ ~_memory_mode
    /\ close_database_connection

FlushAfterFile ==
    /\ last_call = "end_of_file"
    /\ flush_memory_to_file

InitEitherMode == Init \/ InitMemory

NextIngest ==
    \/ RunFiles
    \/ readline
    \/ AddLine
    \/ AddLineClosed
    \/ end_of_file
    \/ CloseAfterFile
    \/ FlushAfterFile
    \/ create_table_as_select

SpecIngest == InitEitherMode /\ [][NextIngest]_vars

\* ------------- SpecConcurrent: a Searcher at work while one Indexer writes
AddConcurrentDocument ==
    /\ Len(documents) < MaxDocs
    /\ copying = <<>>
    /\ \E title \in Titles, content \in Contents : add_index(title, content)

CloseConcurrent ==
    /\ copying = <<>>
    /\ close_database_connection

ConcurrentQueries ==
    Words \cup {<<"a", "b", " ", "a", "b">>, <<"a", "a", " ", "a", "b">>}

SearchStart ==
    \E words \in ConcurrentQueries : search_start(words)

NextConcurrent ==
    \/ AddConcurrentDocument
    \/ CloseConcurrent
    \/ flush_memory_to_file
    \/ create_table_as_select
    \/ SearchStart
    \/ search_word
    \/ search_get_documents

SpecConcurrent == InitEitherMode /\ [][NextConcurrent]_vars

\* ------------------------------------------------- what the claims speak of
\* title || content of the committed document document_id.
Text(document_id) ==
    file_documents[document_id].title
        \o decompress(file_documents[document_id].content)

\* The n of the tokenizer.
NgramLength == IF tokenizer_type = "Bigram" THEN 2 ELSE 3

\* The query-splitting whitespace class: ASCII whitespace and U+3000.
WhitespaceClass == {" ", "\t", "U+3000"}

\* The words of a query: its maximal runs of characters that are not
\* whitespace, each given by the index of its first character.
WordStarts(q) ==
    {i \in 1..Len(q) : q[i] \notin WhitespaceClass
                        /\ (i = 1 \/ q[i - 1] \in WhitespaceClass)}

WordAt(q, i) ==
    LET end == CHOOSE j \in i..Len(q) :
                   /\ \A k \in i..j : q[k] \notin WhitespaceClass
                   /\ (j = Len(q) \/ q[j + 1] \in WhitespaceClass)
    IN  SubSeq(q, i, end)

QueryWords(q) == {WordAt(q, i) : i \in WordStarts(q)}

\* q without its leading and trailing whitespace.
Trimmed(q) ==
    IF WordStarts(q) = {}
    THEN <<>>
    ELSE LET first == CHOOSE i \in WordStarts(q) : \A j \in WordStarts(q) : i <= j
             last == CHOOSE i \in 1..Len(q) :
                         /\ q[i] \notin WhitespaceClass
                         /\ \A j \in (i + 1)..Len(q) : q[j] \in WhitespaceClass
         IN  SubSeq(q, first, last)

\* The ids of a search result, NotFound counted as no id.
Ids(r) == IF r.none THEN {} ELSE {r.rows[k][1] : k \in 1..Len(r.rows)}

\* What a Searcher on the committed tables returns for words.
Found(words) ==
    Ids(search(tokenizer_type, file_documents, file_indices, words))

\* C5: the ids returned for a query of words w1 ... wk (k >= 2, whitespace
\* only between the words) are the intersection of the ids returned for each
\* word alone, NotFound counted as the empty set.
C5_AndIsIntersection ==
    (/\ last_call = "search"
     /\ Cardinality(WordStarts(args)) >= 2
     /\ Trimmed(args) = args)
        => LET found == {Found(w) : w \in QueryWords(args)}
           IN  Ids(result) = {d \in UNION found : \A ids \in found : d \in ids}

\* C5 happens: a two-word query has returned a document that has the two
\* words in the other order, overlapping.
C5_Witness ==
    /\ last_call = "search"
    /\ args = <<"b", "b", " ", "a", "b">>
    /\ Ids(result) = {1}
    /\ Text(1) = <<"a", "b", "b">>

\* C8: a query one of whose words tokenizes to no n-gram returns None.
C8_EmptyWordIsNotFound ==
    (/\ last_call = "search"
     /\ \E w \in QueryWords(args) : tokenize(tokenizer_type, w, <<>>) = <<>>)
        => result = None

\* C8 happens: the query has a word that tokenizes to nothing and another
\* word that alone returns a document, and the search has returned None.
C8_Witness ==
    /\ last_call = "search"
    /\ result = None
    /\ \E w \in QueryWords(args) : tokenize(tokenizer_type, w, <<>>) = <<>>
    /\ \E w \in QueryWords(args) : Found(w) # {}

\* C9: a search returns what the search of the query without its leading and
\* trailing whitespace returns.
C9_SurroundingWhitespaceIgnored ==
    last_call = "search"
        => result = search(tokenizer_type, file_documents, file_indices,
                           Trimmed(args))

\* C10: when add_index has returned, the positions in the buffer are at most
\* TOKEN_POSITION_LIMIT or the buffer is empty.
C10_ThresholdObedience ==
    last_call = "add_index"
        => \/ total_number_positions(_inverted_index) <= TOKEN_POSITION_LIMIT
           \/ _inverted_index = EmptyDict

\* C10 happens: an add_index went over the limit and flushed the buffer to
\* the indices table.
C10_Witness ==
    /\ last_call = "add_index"
    /\ _inverted_index = EmptyDict
    /\ \E t \in DOMAIN indices :
           t \notin DOMAIN file_indices \/ indices[t] # file_indices[t]
    /\ total_number_positions(indices) > TOKEN_POSITION_LIMIT

\* The offsets at which the n-gram t occurs in the text D.
Occurrences(t, D) ==
    {i \in 0..(Len(D) - Len(t)) : SubSeq(D, i + 1, i + Len(t)) = t}

\* The n-grams of D that hold no character of the stopword class.
Ngrams(D) ==
    {t \in {SubSeq(D, i + 1, i + NgramLength) : i \in 0..(Len(D) - NgramLength)} :
        \A k \in 1..Len(t) : t[k] \notin stopwords}

\* C4: once the last Indexer is closed, the indices table holds for every
\* n-gram of the documents one posting list, which maps each document id to
\* exactly the offsets of the n-gram in that document's title || content.
C4_IndexComplete ==
    connection = "closed"
        => LET ids == 1..Len(file_documents)
               grams == UNION {Ngrams(Text(d)) : d \in ids}
           IN  /\ DOMAIN file_indices = grams
               /\ \A t \in grams :
                      LET posting_list == file_indices[t].posting_list
                      IN  /\ file_indices[t].token = t
                          /\ DOMAIN posting_list =
                                 {d \in ids : Occurrences(t, Text(d)) # {}}
                          /\ \A d \in DOMAIN posting_list :
                                 /\ Len(posting_list[d]) =
                                        Cardinality(Occurrences(t, Text(d)))
                                 /\ {posting_list[d][k] : k \in 1..Len(posting_list[d])}
                                        = Occurrences(t, Text(d))

\* A query of one word: no whitespace in it.
SingleWord(q) ==
    q # <<>> /\ \A k \in 1..Len(q) : q[k] \notin WhitespaceClass

\* w is a contiguous substring of D.
Contains(D, w) == Occurrences(w, D) # {}

\* C1: a word of at least n characters, none of them a stopword, is found in
\* every committed document that contains it.
C1_NoFalseNegatives ==
    (/\ last_call = "search"
     /\ SingleWord(args)
     /\ Len(args) >= NgramLength
     /\ \A k \in 1..Len(args) : args[k] \notin stopwords)
        => \A d \in 1..Len(file_documents) :
               Contains(Text(d), args) => d \in Ids(result)

\* C2: every document returned for a word of at least n characters contains
\* the word.
C2_NoFalsePositives ==
    (/\ last_call = "search"
     /\ SingleWord(args)
     /\ Len(args) >= NgramLength)
        => \A d \in Ids(result) : Contains(Text(d), args)

\* C3: a word that has stopword characters and still tokenizes to an n-gram
\* is found in every committed document that contains it.
C3_StopwordWordFound ==
    (/\ last_call = "search"
     /\ SingleWord(args)
     /\ \E k \in 1..Len(args) : args[k] \in stopwords
     /\ tokenize(tokenizer_type, args, <<>>) # <<>>)
        => \A d \in 1..Len(file_documents) :
               Contains(Text(d), args) => d \in Ids(result)

\* C6: tokenize(title, content) is, in ascending offset order, exactly the
\* pairs (i, D[i:i+n]) with D = title || content and 0 <= i <= len(D) - n
\* whose n-gram holds no stopword character; it is [] when len(D) < n, and
\* every n-gram has length n.
C6_TokenizeExact ==
    last_call = "tokenize"
        => LET D == args[1] \o args[2]
               n == NgramLength
               tokens == result.rows
               offsets == {i \in 0..(Len(D) - n) :
                              \A k \in (i + 1)..(i + n) : D[k] \notin stopwords}
           IN  /\ {tokens[k] : k \in 1..Len(tokens)}
                      = {<<i, SubSeq(D, i + 1, i + n)>> : i \in offsets}
               /\ \A j, k \in 1..Len(tokens) : j < k => tokens[j][1] < tokens[k][1]
               /\ \A k \in 1..Len(tokens) : Len(tokens[k][2]) = n
               /\ (Len(D) < n => tokens = <<>>)

\* C6 happens: a text with a stopword in the middle has been tokenized to
\* n-grams on both sides of the stopword, and fewer n-grams than offsets.
C6_Witness ==
    /\ last_call = "tokenize"
    /\ args[1] # <<>>
    /\ args[2] # <<>>
    /\ Len(result.rows) >= 2
    /\ \E k \in 1..(Len(result.rows) - 1) :
           result.rows[k + 1][1] > result.rows[k][1] + 1

\* C7: _get_matched_document_ids(candidates, tokens) with N = len(tokens)
\* >= 1 returns document id d if and only if there is a position p such that
\* candidates[d] contains (p + k, tokens[k]) for every k in 0..N-1.
C7_MatchIffContiguousRun ==
    last_call = "_get_matched_document_ids"
        => LET candidates == args[1]
               tokens == args[2]
               N == Len(tokens)
               returned == {result.rows[k] : k \in 1..Len(result.rows)}
               pairs(d) == {candidates[d][k] : k \in 1..Len(candidates[d])}
           IN  \A d \in DOMAIN candidates :
                   d \in returned
                       <=> \E p \in 0..MaxMatchPosition :
                               \A k \in 0..(N - 1) :
                                   <<p + k, tokens[k + 1][2]>> \in pairs(d)

\* C11: _flush_buffer(final=True) on an empty buffer changes neither the
\* store nor the buffer, and after a second _flush_buffer(final=True) in
\* succession the indices table is what the first call left.
C11_IdempotentFlush ==
    (last_call = "_flush_buffer" /\ args = <<TRUE>>)
        => /\ entry._inverted_index = EmptyDict
                  => /\ indices = entry.indices
                     /\ documents = entry.documents
                     /\ _inverted_index = EmptyDict
           /\ (entry.last_call = "_flush_buffer" /\ entry.args = <<TRUE>>)
                  => indices = entry.indices

\* C11 happens: a second final flush in succession, on a store that holds
\* posting lists.
C11_Witness ==
    /\ last_call = "_flush_buffer"
    /\ args = <<TRUE>>
    /\ entry.last_call = "_flush_buffer"
    /\ entry.args = <<TRUE>>
    /\ entry._inverted_index = EmptyDict
    /\ indices # EmptyDict

\* The sum of positions_count over a buffer.
SumOfCounts(buffer) ==
    Cardinality({<<token, j>> \in (DOMAIN buffer) \X (1..(MaxDocs * (MaxContentLen + 1))) :
                    j <= buffer[token].positions_count})

\* C19: _flush_buffer(final=False) with the sum of positions_count at most
\* TOKEN_POSITION_LIMIT leaves the buffer, the indices table and the
\* documents table unchanged; when it flushes, every item of the buffer is
\* the stored row of its token, the other rows are unchanged, the buffer is
\* empty and the documents table is unchanged.
C19_NonFinalFlushFrame ==
    (last_call = "_flush_buffer" /\ args = <<FALSE>>)
        => IF SumOfCounts(entry._inverted_index) <= TOKEN_POSITION_LIMIT
           THEN /\ _inverted_index = entry._inverted_index
                /\ indices = entry.indices
                /\ documents = entry.documents
           ELSE /\ _inverted_index = EmptyDict
                /\ documents = entry.documents
                /\ DOMAIN indices = DOMAIN entry.indices \cup DOMAIN entry._inverted_index
                /\ \A token \in DOMAIN entry._inverted_index :
                       indices[token] = entry._inverted_index[token]
                /\ \A token \in DOMAIN entry.indices \ DOMAIN entry._inverted_index :
                       indices[token] = entry.indices[token]

\* C19 happens: a non-final flush over the threshold has replaced a stored
\* row by the item of the buffer.
C19_Witness ==
    /\ last_call = "_flush_buffer"
    /\ args = <<FALSE>>
    /\ _inverted_index = EmptyDict
    /\ \E token \in DOMAIN entry._inverted_index \cap DOMAIN entry.indices :
           /\ entry.indices[token] # entry._inverted_index[token]
           /\ indices[token] = entry._inverted_index[token]

\* The posting lists of the buffer, of the store as the Indexer's connection
\* sees it, and of the database file.
PostingLists ==
    {_inverted_index[token] : token \in DOMAIN _inverted_index}
        \cup {indices[token] : token \in DOMAIN indices}
        \cup {file_indices[token] : token \in DOMAIN file_indices}

\* C12: every posting list of the buffer and of the indices table has
\* positions_count equal to the sum over its document ids d of
\* len(posting_list[d]).
C12_PositionsCount ==
    \A item \in PostingLists :
        item.positions_count
            = Cardinality({<<d, k>> \in (DOMAIN item.posting_list) \X (1..(MaxContentLen + 1)) :
                              k <= Len(item.posting_list[d])})

\* C12 happens: a posting list reloaded from the store has had the positions
\* of another document added in the buffer.
C12_Witness ==
    /\ connection = "open"
    /\ \E token \in DOMAIN _inverted_index \cap DOMAIN file_indices :
           /\ Cardinality(DOMAIN file_indices[token].posting_list) = 1
           /\ Cardinality(DOMAIN _inverted_index[token].posting_list) = 2
           /\ _inverted_index[token].positions_count >= 2

\* C13: for every posting list and every document id in it, the position
\* list is non-empty and strictly increasing.
C13_PositionsIncreasing ==
    \A item \in PostingLists :
        \A d \in DOMAIN item.posting_list :
            LET positions == item.posting_list[d]
            IN  /\ positions # <<>>
                /\ \A j, k \in 1..Len(positions) :
                       j < k => positions[j] < positions[k]

\* C13 happens: add_index has left a posting list with two positions of a
\* second document, and a posting list that the store held for the first
\* document alone holds both documents.
C13_Witness ==
    /\ last_call = "add_index"
    /\ \E item \in PostingLists :
           \E d \in DOMAIN item.posting_list :
               /\ d > 1
               /\ Len(item.posting_list[d]) >= 2
               /\ 1 \in DOMAIN item.posting_list
    /\ \E token \in DOMAIN file_indices :
           \E item \in PostingLists :
               /\ item.token = token
               /\ DOMAIN file_indices[token].posting_list = {1}
               /\ DOMAIN item.posting_list = {1, 2}

\* C14: when a store operation fails during add_index (the document insert,
\* the posting-list lookup) or during _flush_buffer (the upsert), the error
\* reaches the caller and the buffer is what it was before the failing call.
C14_BufferUnaffectedByFailure ==
    (last_call \in {"add_index", "_flush_buffer"} /\ entry # None)
        => /\ result = Raised("sqlite3.Error")
           /\ _inverted_index = entry._inverted_index

\* C15: when a run with -d, -t and -c has ended, the database file holds the
\* document row and, for every n-gram of title || content, a posting list
\* with the document in it.
C15_RunStoresDocument ==
    last_call = "run"
        => \E d \in 1..Len(file_documents) :
               /\ file_documents[d].title = args[1]
               /\ decompress(file_documents[d].content) = args[2]
               /\ \A t \in Ngrams(args[1] \o args[2]) :
                      /\ t \in DOMAIN file_indices
                      /\ d \in DOMAIN file_indices[t].posting_list

\* C16: every document id occurs at most once in the list that
\* _get_matched_document_ids returns, also when the document holds the query
\* n-gram sequence at several places.
C16_MatchedIdsAreSet ==
    last_call = "_get_matched_document_ids"
        => \A j, k \in 1..Len(result.rows) :
               j # k => result.rows[j] # result.rows[k]

\* C17: after flush_memory_to_file the database file holds every document
\* added before the call and, for each of them, the posting entries of all
\* its n-grams, those of the merge buffer included.
C17_MemoryFlushComplete ==
    (last_call = "flush_memory_to_file" /\ copying = <<>> /\ result = None)
        => /\ file_documents = documents
           /\ \A d \in 1..Len(file_documents) :
                  \A t \in Ngrams(Text(d)) :
                      /\ t \in DOMAIN file_indices
                      /\ d \in DOMAIN file_indices[t].posting_list
                      /\ {file_indices[t].posting_list[d][k] :
                              k \in 1..Len(file_indices[t].posting_list[d])}
                             = Occurrences(t, Text(d))

\* C18: no add_index is invoked on an Indexer after its
\* close_database_connection; the ingestion of any number of input files
\* never operates on an Indexer that it has closed.
C18_NoAddAfterClose ==
    last_call = "add_index" => connection = "open"

\* What a search returns on the store as it was before the Indexer wrote to
\* it: a file without tables in memory mode, the two empty tables otherwise.
SearchBeforeCommit ==
    IF _memory_mode THEN Raised("no such table: indices") ELSE None

\* Whether the Indexer has begun to write the file, and the tables that the
\* file holds when that write is complete.
CommitBegun ==
    IF _memory_mode THEN "indices" \in file_tables ELSE connection = "closed"

DocumentsAfterCommit ==
    IF "documents" \in file_tables THEN file_documents ELSE documents

\* C20: a search of one word that runs while one Indexer works on the same
\* store returns what the same search returns on the store before that
\* Indexer's commit or on the store after it; it never sees a store written
\* in part.
C20_SearchSeesCommittedStore ==
    (last_call = "search" /\ SingleWord(args))
        => \/ result = SearchBeforeCommit
           \/ /\ CommitBegun
              /\ result = search(tokenizer_type, DocumentsAfterCommit,
                                 file_indices, args)

====
